---------------------------- MODULE Spec2Model ----------------------------
(***************************************************************************)
(* A model of fetch_and_prep.py: the pipeline driver main(), the filename  *)
(* parser, the checksum verifier, the icon extractor, the spec-file        *)
(* synthesizer create_spec_file and the %prep / %install stages of the     *)
(* spec file it writes.                                                    *)
(*                                                                         *)
(* Python str values are TLA+ strings; TLC evaluates Len, \o and SubSeq on *)
(* them, so every pattern is matched character by character.               *)
(***************************************************************************)
EXTENDS Integers, Sequences, FiniteSets, TLC

(***************************************************************************)
(* str helpers                                                             *)
(***************************************************************************)
Ch(s, i) == SubSeq(s, i, i)

StartsWithAt(s, i, lit) ==
    /\ i >= 1
    /\ i + Len(lit) - 1 <= Len(s)
    /\ SubSeq(s, i, i + Len(lit) - 1) = lit

startswith(s, prefix) == StartsWithAt(s, 1, prefix)

endswith(s, suffix) ==
    /\ Len(suffix) <= Len(s)
    /\ SubSeq(s, Len(s) - Len(suffix) + 1, Len(s)) = suffix

Min(S) == CHOOSE x \in S : \A y \in S : x <= y
Max(S) == CHOOSE x \in S : \A y \in S : x >= y

LowerChars == {"a", "b", "c", "d", "e", "f", "g", "h", "i", "j", "k", "l", "m",
               "n", "o", "p", "q", "r", "s", "t", "u", "v", "w", "x", "y", "z"}
UpperChars == {"A", "B", "C", "D", "E", "F", "G", "H", "I", "J", "K", "L", "M",
               "N", "O", "P", "Q", "R", "S", "T", "U", "V", "W", "X", "Y", "Z"}
DigitChars == {"0", "1", "2", "3", "4", "5", "6", "7", "8", "9"}
SpaceChars == {" ", "\t", "\n", "\r"}

\* The first index >= i of s whose character is outside cs (Len(s)+1 if none):
\* the end of a greedy character-class repetition started at i.
RECURSIVE SpanEnd(_, _, _)
SpanEnd(s, i, cs) ==
    IF i <= Len(s) /\ Ch(s, i) \in cs THEN SpanEnd(s, i + 1, cs) ELSE i

\* str.split(sep) for a one-character separator.
RECURSIVE Split(_, _)
Split(s, sep) ==
    LET at == {i \in 1..Len(s) : Ch(s, i) = sep}
    IN  IF at = {} THEN <<s>>
        ELSE <<SubSeq(s, 1, Min(at) - 1)>> \o Split(SubSeq(s, Min(at) + 1, Len(s)), sep)

\* s.split(sep)[-1]
LastPart(s, sep) == LET parts == Split(s, sep) IN parts[Len(parts)]

\* Concatenation of a sequence of strings.
RECURSIVE Join(_)
Join(ss) == IF Len(ss) = 0 THEN "" ELSE Head(ss) \o Join(Tail(ss))

(***************************************************************************)
(* verify_checksum                                                         *)
(***************************************************************************)
\* str.lower() on the ASCII letters
LowerOf(c) ==
    IF c \in UpperChars
    THEN LET i == CHOOSE k \in 1..26 : Ch("ABCDEFGHIJKLMNOPQRSTUVWXYZ", k) = c
         IN  Ch("abcdefghijklmnopqrstuvwxyz", i)
    ELSE c

RECURSIVE lower(_)
lower(s) == IF Len(s) = 0 THEN "" ELSE LowerOf(Ch(s, 1)) \o lower(Tail(s))

\* str.split() without a separator: the maximal runs of non-whitespace
RECURSIVE WhitespaceSplit(_)
WhitespaceSplit(s) ==
    LET a == SpanEnd(s, 1, SpaceChars)
        b == IF a > Len(s) THEN a
             ELSE Min({i \in a..(Len(s) + 1) : i = Len(s) + 1 \/ Ch(s, i) \in SpaceChars})
    IN  IF a > Len(s) THEN <<>>
        ELSE <<SubSeq(s, a, b - 1)>> \o WhitespaceSplit(SubSeq(s, b, Len(s)))

\* hashlib.sha512(content).hexdigest(), shortened to four hex digits: lowercase,
\* and different for different contents.
Sha512Hex(content) ==
    CASE content = ""        -> "cf83"
      [] content = "tarball" -> "ab12"
      [] content = "tarbalm" -> "cd34"
      [] OTHER               -> "0e0f"

\* A reply to requests.get: the call raised, or a response with status and text.
GetRaised == [raised |-> TRUE, status_code |-> 0, text |-> ""]
Reply(status, text) == [raised |-> FALSE, status_code |-> status, text |-> text]

\* Response.raise_for_status(): raises for 4xx and 5xx
RaiseForStatusRaises(response) ==
    response.status_code >= 400 /\ response.status_code < 600

\* The body of the try block: "True", "False", or "raise" when a statement of it
\* raises (requests.get, raise_for_status, split()[0] on an empty body, open()).
VerifyTry(file, response) ==
    IF response.raised THEN "raise"
    ELSE IF RaiseForStatusRaises(response) THEN "raise"
    ELSE IF Len(WhitespaceSplit(response.text)) = 0 THEN "raise"
    ELSE IF ~file.readable THEN "raise"
    ELSE LET expected_hash == WhitespaceSplit(response.text)[1]
             calculated_hash == Sha512Hex(file.content)
         IN  IF lower(calculated_hash) = lower(expected_hash) THEN "True" ELSE "False"


\* VerifyExcept without the except clause: the exception leaves the function
MutVerifyExcept(outcome) ==
    IF outcome = "raise" THEN [raised |-> TRUE, value |-> FALSE]
    ELSE [raised |-> FALSE, value |-> (outcome = "True")]

\* except Exception: return False
VerifyExcept(outcome) ==
    IF outcome = "raise" THEN [raised |-> FALSE, value |-> FALSE]
    ELSE [raised |-> FALSE, value |-> (outcome = "True")]

verify_checksum(file, response) == VerifyExcept(VerifyTry(file, response))

MaxBodyChunks == 3
BodyChunks == {"ab12", "AB12", "aB12", "cd34", "ab1", " ", "\n", "x"}
Bodies == {""} \cup
          {Join(cs) : cs \in UNION {[1..n -> BodyChunks] : n \in 1..MaxBodyChunks}}
StatusCodes == {200, 404, 500}
Replies == {GetRaised} \cup {Reply(st, b) : st \in StatusCodes, b \in Bodies}
LocalFiles == {[readable |-> FALSE, content |-> ""]} \cup
              {[readable |-> TRUE, content |-> c] : c \in {"", "tarball", "tarbalm"}}

(***************************************************************************)
(* parse_filename                                                          *)
(***************************************************************************)
\* \d{4}-\d{2} matched at index i of s
VersionAt(s, i) ==
    /\ i >= 1
    /\ i + 6 <= Len(s)
    /\ \A k \in {0, 1, 2, 3, 5, 6} : Ch(s, i + k) \in DigitChars
    /\ Ch(s, i + 4) = "-"

NoMatch == [matched |-> FALSE, g1 |-> "", g2 |-> ""]

\* re.match(r'eclipse-([a-z]+)-(\d{4}-\d{2})(-R)?-linux-gtk-x86_64\.tar\.gz', filename):
\* anchored at the start only; [a-z]+ is greedy and must be followed by '-', which
\* is outside the class, so the longest run is the only candidate.
StrictMatch(filename) ==
    LET a == Len("eclipse-") + 1
        b == SpanEnd(filename, a, LowerChars)
        v == b + 1
        r == v + 7
        tail == "-linux-gtk-x86_64.tar.gz"
    IN  IF /\ startswith(filename, "eclipse-")
           /\ b > a
           /\ StartsWithAt(filename, b, "-")
           /\ VersionAt(filename, v)
           /\ \/ StartsWithAt(filename, r, "-R") /\ StartsWithAt(filename, r + 2, tail)
              \/ StartsWithAt(filename, r, tail)
        THEN [matched |-> TRUE, g1 |-> SubSeq(filename, a, b - 1),
              g2 |-> SubSeq(filename, v, v + 6)]
        ELSE NoMatch

\* re.search(r'\d{4}-\d{2}', filename): the leftmost match, group(0)
SearchVersion(filename) ==
    LET hits == {i \in 1..Len(filename) : VersionAt(filename, i)}
    IN  IF hits = {} THEN NoMatch
        ELSE [matched |-> TRUE, g1 |-> "",
              g2 |-> SubSeq(filename, Min(hits), Min(hits) + 6)]

parse_filename(filename) ==
    LET match == StrictMatch(filename)
        parts == Split(filename, "-")
        version_match == SearchVersion(filename)
    IN  IF match.matched THEN <<match.g1, match.g2>>
        ELSE IF Len(parts) >= 3 /\ parts[1] = "eclipse"
             THEN <<parts[2], IF version_match.matched THEN version_match.g2 ELSE "unknown">>
             ELSE <<"eclipse", "unknown">>

\* Filenames handed to the parser: every concatenation of 1..MaxChunks pieces.
MaxChunks == 5
NameChunks == {"eclipse-", "cpp", "CPP", "-2025-12", "-R",
               "-linux-gtk-x86_64.tar.gz", "-", "x"}
Filenames == {Join(cs) : cs \in UNION {[1..n -> NameChunks] : n \in 1..MaxChunks}}

(***************************************************************************)
(* extract_and_package_icons                                               *)
(***************************************************************************)
\* Python's None, as a value of its own among the strings
None == "<None>"

\* str.isdigit() on ASCII text
isdigit(s) == Len(s) > 0 /\ \A k \in 1..Len(s) : Ch(s, k) \in DigitChars

\* m.name.split('/')[-1]
BaseName(path) == LastPart(path, "/")


\* IsIconName without the test of the middle: any eclipse*.png
MutIsIconName(name) ==
    \/ name = "icon.xpm"
    \/ startswith(name, "eclipse") /\ endswith(name, ".png")

\* The test of the scan loop on a base name: 'icon.xpm', or eclipse*.png whose
\* middle name[7:-4] is a number or empty.
IsIconName(name) ==
    \/ name = "icon.xpm"
    \/ /\ startswith(name, "eclipse")
       /\ endswith(name, ".png")
       /\ LET middle == SubSeq(name, 8, Len(name) - 4)
          IN  isdigit(middle) \/ middle = ""

\* Whether tarfile.open succeeds: "r:gz" first, "r" only after a
\* tarfile.ReadError; any other exception leaves the function through the outer
\* except.
TarOpens(tarball) ==
    \/ tarball.gz = "ok"
    \/ tarball.gz = "ReadError" /\ tarball.plain = "ok"

\* The members appended to icons_to_extract, in getmembers() order
IconsToExtract(members) ==
    SelectSeq(members, LAMBDA m : IsIconName(BaseName(m.name)))

\* The members added to the bundle before tar.extractfile raises, or all of them
RECURSIVE Bundled(_)
Bundled(ms) ==
    IF Len(ms) = 0 \/ ~Head(ms).extractable THEN <<>>
    ELSE <<BaseName(Head(ms).name)>> \o Bundled(Tail(ms))

\* raised: an exception left the function; returned: the return value; written:
\* whether eclipse-icons.tar.gz was opened for writing in dest_dir; bundle: the
\* member names added to it, in order.
IconsResult(raised, returned, written, bundle) ==
    [raised |-> raised, returned |-> returned, written |-> written, bundle |-> bundle]

\* The body of the try block; raised is set where a statement of it raises:
\* tarfile.open, getmembers() on a damaged archive, opening the bundle for
\* writing, tar.extractfile on a member.
ExtractTry(tarball, dest_writable) ==
    LET icons_to_extract == IconsToExtract(tarball.members)
        added == Bundled(icons_to_extract)
    IN  IF ~TarOpens(tarball) THEN IconsResult(TRUE, None, FALSE, <<>>)
        ELSE IF tarball.scan # "ok" THEN IconsResult(TRUE, None, FALSE, <<>>)
        ELSE IF Len(icons_to_extract) = 0 THEN IconsResult(FALSE, None, FALSE, <<>>)
        ELSE IF ~dest_writable THEN IconsResult(TRUE, None, FALSE, <<>>)
        ELSE IF Len(added) < Len(icons_to_extract) THEN IconsResult(TRUE, None, TRUE, added)
        ELSE IconsResult(FALSE, "eclipse-icons.tar.gz", TRUE, added)


\* ExtractExcept without the except clause
MutExtractExcept(r) == r

\* except Exception: return None
ExtractExcept(r) == IF r.raised THEN [r EXCEPT !.raised = FALSE, !.returned = None] ELSE r

extract_and_package_icons(tarball, dest_writable) ==
    ExtractExcept(ExtractTry(tarball, dest_writable))

MaxMembers == 2
MemberNames == {"eclipse/icon.xpm", "icon.xpm", "eclipse/plugins/p/eclipse48.png",
                "eclipse.png", "eclipse/eclipse.ini", "eclipse/eclipsec.png",
                "eclipse/myicon.xpm", "eclipse48.png/about.html"}
Members == [name : MemberNames, extractable : BOOLEAN]
Tarballs ==
    {t \in [gz : {"ok", "ReadError", "OSError"}, plain : {"ok", "ReadError"},
            scan : {"ok", "error"},
            members : UNION {[1..n -> Members] : n \in 0..MaxMembers}] :
        /\ t.gz = "OSError" => t.plain = "ReadError"
        /\ ~TarOpens(t) => t.scan = "error" /\ t.members = <<>>}

(***************************************************************************)
(* The platform pruning of the %install stage written by create_spec_file  *)
(***************************************************************************)
\* fnmatch(3) of a name against a pattern whose only special character is '*'
RECURSIVE Fnmatch(_, _)
Fnmatch(pattern, name) ==
    IF Len(pattern) = 0 THEN Len(name) = 0
    ELSE IF pattern = "*" THEN TRUE
    ELSE IF Head(pattern) = "*"
         THEN \E k \in 0..Len(name) : Fnmatch(Tail(pattern), SubSeq(name, k + 1, Len(name)))
         ELSE /\ Len(name) > 0
              /\ Head(name) = Head(pattern)
              /\ Fnmatch(Tail(pattern), Tail(name))

\* Pathname expansion of the shell for one path component: as fnmatch, but a
\* leading '.' of the name is matched only by a leading '.' of the pattern.
ShellGlob(pattern, name) ==
    /\ Fnmatch(pattern, name)
    /\ startswith(name, ".") => startswith(pattern, ".")

\* An entry below plugins/: its path relative to plugins/ and its type
Entry(path, type) == [path |-> path, type |-> type]

\* The first component of a relative path, and whether the path is at depth one
TopName(path) == Split(path, "/")[1]
IsTop(path) == Len(Split(path, "/")) = 1

\* path is the entry at dir, or lies below it
Under(path, dir) == path = dir \/ startswith(path, dir \o "/")


\* RmPatterns without the block of the other operating systems
MutRmPatterns == {"*.aarch64*", "*.arm*", "*.ppc*", "*.riscv*", "*.s390*", "*.sparc*",
                  "*.mips*"}

\* rm -rf %{buildroot}/opt/<package>/plugins/<pattern>, for the patterns of the
\* two rm blocks
RmPatterns == {"*.aarch64*", "*.arm*", "*.ppc*", "*.riscv*", "*.s390*", "*.sparc*",
               "*.mips*", "*.macosx*", "*.win32*"}

RmGlobs(tree) ==
    LET hit == {e.path : e \in {x \in tree : IsTop(x.path) /\
                                  \E pat \in RmPatterns : ShellGlob(pat, x.path)}}
    IN  {e \in tree : ~\E d \in hit : Under(e.path, d)}

\* find plugins -type d \( -name ... \) -exec rm -rf {} +
FindDirNames == {"*aarch64*", "*arm*", "*ppc*", "*riscv*", "*s390*", "*sparc*",
                 "*mips*", "*loongarch*", "*freebsd*", "*openbsd*", "*netbsd*",
                 "*dragonfly*", "*sunos*", "*solaris*", "*aix*", "*darwin*",
                 "*macosx*", "*win32*", "*windows*"}

FindDirsRm(tree) ==
    LET hit == {e.path : e \in {x \in tree : x.type = "d" /\
                                  \E pat \in FindDirNames : Fnmatch(pat, BaseName(x.path))}}
    IN  {e \in tree : ~\E d \in hit : Under(e.path, d)}

\* find plugins -type f \( -name "*.dylib" -o -name "*.dll" \) -delete
FindFileNames == {"*.dylib", "*.dll"}

FindFilesDelete(tree) ==
    {e \in tree : ~(e.type = "f" /\ \E pat \in FindFileNames : Fnmatch(pat, BaseName(e.path)))}

\* The three passes in the order of the stage
PlatformPrune(tree) == FindFilesDelete(FindDirsRm(RmGlobs(tree)))

\* Staged plugin trees: one entry of any name and type directly under plugins/,
\* with at most one entry inside it when it is a directory, beside a jar.
MaxNameParts == 3
NameParts == {"foo.", "win32", ".jar", "linux.gtk.x86_64", "arm", ".", ".dll"}
PluginNames == {Join(cs) : cs \in UNION {[1..n -> NameParts] : n \in 1..MaxNameParts}}
ChildNames == {"win32", "jna.dll", "libswt.so"}
StagedTrees ==
    LET jar == Entry("org.eclipse.core.runtime.jar", "f")
    IN  {{jar, Entry(n, "f")} : n \in PluginNames} \cup
        {{jar, Entry(n, "d")} : n \in PluginNames} \cup
        {{jar, Entry(n, "d"), Entry(n \o "/" \o c, t)} :
            n \in PluginNames, c \in ChildNames, t \in {"f", "d"}}

(***************************************************************************)
(* create_spec_file, and the %prep and %install stages of the file it      *)
(* writes                                                                  *)
(***************************************************************************)
UpperOf(c) ==
    IF c \in LowerChars
    THEN LET i == CHOOSE k \in 1..26 : Ch("abcdefghijklmnopqrstuvwxyz", k) = c
         IN  Ch("ABCDEFGHIJKLMNOPQRSTUVWXYZ", i)
    ELSE c

RECURSIVE upper(_)
upper(s) == IF Len(s) = 0 THEN "" ELSE UpperOf(Ch(s, 1)) \o upper(Tail(s))

\* str.capitalize()
capitalize(s) == IF Len(s) = 0 THEN "" ELSE UpperOf(Ch(s, 1)) \o lower(Tail(s))

\* str.replace(old, new) for one-character old
RECURSIVE replace(_, _, _)
replace(s, old, new) ==
    IF Len(s) = 0 THEN ""
    ELSE (IF Ch(s, 1) = old THEN new ELSE Ch(s, 1)) \o replace(Tail(s), old, new)

\* The truth value Python gives an argument that is None or a str
Truthy(x) == x # None /\ x # ""

\* icons_install_entry when a bundle was passed: the loop over the unpacked icons
IconsInstallLoop == "# Install Icons\nfor icon in eclipse*.png icon.xpm; do ... done"
\* and when none was
NoIconsPlaceholder == "# No icons found to install"


\* FilesSection naming the pixmap .png instead of the wildcard
MutFilesSection(package_name) ==
    << "/opt/" \o package_name,
       "%{_bindir}/" \o package_name,
       "%{_datadir}/applications/" \o package_name \o ".desktop",
       "%{_datadir}/icons/hicolor/*/apps/" \o package_name \o ".png",
       "%{_datadir}/pixmaps/" \o package_name \o ".png" >>

\* The %files section
FilesSection(package_name) ==
    << "/opt/" \o package_name,
       "%{_bindir}/" \o package_name,
       "%{_datadir}/applications/" \o package_name \o ".desktop",
       "%{_datadir}/icons/hicolor/*/apps/" \o package_name \o ".png",
       "%{_datadir}/pixmaps/" \o package_name \o ".*" >>

\* The word the %prep stage tests with [ -n ... ] and hands to tar -xf; it is in
\* the template whether or not a bundle was passed.
PrepSecondSource == "%{SOURCE1}"

\* The spec file written by create_spec_file, by section
create_spec_file(flavor, version, tarball_name, icons_archive_name) ==
    LET package_name == "eclipse-" \o flavor
        rpm_version == replace(version, "-", ".")
        flavor_display == IF Len(flavor) <= 3 THEN upper(flavor) ELSE capitalize(flavor)
    IN  [ spec_path |-> "rpmbuild/SPECS/" \o package_name \o ".spec",
          Name |-> package_name,
          Version |-> rpm_version,
          Summary |-> "Eclipse IDE for " \o flavor_display \o " Developers",
          Source0 |-> tarball_name,
          icons_source_entry |-> IF Truthy(icons_archive_name)
                                 THEN "Source1:        " \o icons_archive_name
                                 ELSE "",
          icons_prep_entry |-> IF Truthy(icons_archive_name) THEN "-a 1" ELSE "",
          prep_second_source |-> PrepSecondSource,
          icons_install_entry |-> IF Truthy(icons_archive_name)
                                  THEN IconsInstallLoop
                                  ELSE NoIconsPlaceholder,
          files |-> FilesSection(package_name) ]

\* ---- rpmbuild on the written file ----
\* Whether the preamble declares a second source
DeclaresSource1(doc) == startswith(doc.icons_source_entry, "Source1:")

\* rpm's expansion of a macro word of a scriptlet: %{SOURCE1} is defined only by
\* a Source1 tag, and an undefined macro is left in the text as it stands.
ExpandMacro(doc, word) ==
    IF word = "%{SOURCE1}" /\ DeclaresSource1(doc)
    THEN "rpmbuild/SOURCES/" \o SubSeq(doc.icons_source_entry, Len("Source1:        ") + 1,
                                       Len(doc.icons_source_entry))
    ELSE word

\* if [ -n "<word>" ]: the test of %prep on the expanded word
PrepTestsNonEmpty(doc) == Len(ExpandMacro(doc, doc.prep_second_source)) > 0

\* The %prep stage: tar -xf %{SOURCE0}, then, if the test holds, tar -xf of the
\* expanded word.  tar fails on a word that names no file, and the stage with it.
\* bundle: the names held by the icon bundle in SOURCES.
\* Returns the build directory (names of regular files, beside the eclipse/
\* tree), whether the second extraction was run, and the stage's exit.
Prep(doc, bundle) ==
    LET runs_second == PrepTestsNonEmpty(doc)
        second_ok == DeclaresSource1(doc)
    IN  [ files |-> IF runs_second /\ second_ok THEN bundle ELSE {},
          extracts_second |-> runs_second,
          status |-> IF runs_second /\ ~second_ok THEN "failed" ELSE "ok" ]

\* sed 's/[^0-9]*//g'
RECURSIVE SedDigits(_)
SedDigits(s) ==
    IF Len(s) = 0 THEN ""
    ELSE (IF Ch(s, 1) \in DigitChars THEN Ch(s, 1) ELSE "") \o SedDigits(Tail(s))

\* The words of `for icon in eclipse*.png icon.xpm`: the glob's matches in the
\* build directory (the pattern itself when nothing matches), then icon.xpm
LoopWords(files) ==
    LET hits == {f \in files : ShellGlob("eclipse*.png", f)}
    IN  (IF hits = {} THEN {"eclipse*.png"} ELSE hits) \cup {"icon.xpm"}


\* XpmBranch without the continue
MutXpmBranch(package_name, icon) ==
    IF icon = "icon.xpm"
    THEN [installs |-> {"%{buildroot}%{_datadir}/pixmaps/" \o package_name \o ".xpm"},
          continues |-> FALSE]
    ELSE [installs |-> {}, continues |-> FALSE]

\* if [[ "$icon" == "icon.xpm" ]]: install as the pixmap .xpm, then continue
XpmBranch(package_name, icon) ==
    IF icon = "icon.xpm"
    THEN [installs |-> {"%{buildroot}%{_datadir}/pixmaps/" \o package_name \o ".xpm"},
          continues |-> TRUE]
    ELSE [installs |-> {}, continues |-> FALSE]

\* The rest of the loop body: the size is the digits of the name; without a size
\* the icon goes to pixmaps, with one to hicolor/<size>x<size>/apps
SizeBranch(package_name, icon) ==
    LET size == SedDigits(icon)
    IN  IF size = ""
        THEN {"%{buildroot}%{_datadir}/pixmaps/" \o package_name \o ".png"}
        ELSE {"%{buildroot}%{_datadir}/icons/hicolor/" \o size \o "x" \o size \o
              "/apps/" \o package_name \o ".png"}

\* The destinations one pass of the loop body installs $icon to
IconInstalls(package_name, files, icon) ==
    IF icon \notin files THEN {}                        \* [ ! -f "$icon" ] continue
    ELSE LET first == XpmBranch(package_name, icon)
         IN  first.installs \cup
             (IF first.continues THEN {} ELSE SizeBranch(package_name, icon))

\* The icon part of %install: <<source, destination>> of every install run
IconsInstallStage(doc, files) ==
    IF doc.icons_install_entry = IconsInstallLoop
    THEN UNION {{<<icon, dest>> : dest \in IconInstalls(doc.Name, files, icon)} :
                   icon \in LoopWords(files)}
    ELSE {}                                             \* a comment: nothing runs

\* The tree of the unpacked tarball below eclipse/: files at its root, and the
\* entries below eclipse/plugins
Payload == [root |-> {"eclipse", "eclipse.ini"},
            plugins |-> {Entry("org.eclipse.core.runtime.jar", "f"),
                         Entry("org.eclipse.swt.win32.win32.x86_64.jar", "f"),
                         Entry("org.eclipse.swt.gtk.linux.x86_64.jar", "f"),
                         Entry("com.sun.jna", "d"),
                         Entry("com.sun.jna/darwin-aarch64", "d"),
                         Entry("com.sun.jna/darwin-aarch64/libjnidispatch.jnilib", "f"),
                         Entry("com.sun.jna/linux-x86-64", "d"),
                         Entry("com.sun.jna/linux-x86-64/libjnidispatch.so", "f")}]

\* The %install stage: every file path it leaves in the buildroot
Install(doc, files) ==
    LET opt == "%{buildroot}/opt/" \o doc.Name
    IN  {opt \o "/" \o f : f \in Payload.root}
        \cup {opt \o "/plugins/" \o e.path :
                 e \in {x \in PlatformPrune(Payload.plugins) : x.type = "f"}}
        \cup {p[2] : p \in IconsInstallStage(doc, files)}
        \cup {"%{buildroot}%{_datadir}/applications/" \o doc.Name \o ".desktop"}
        \cup {"%{buildroot}%{_bindir}/" \o doc.Name}

(***************************************************************************)
(* main                                                                    *)
(***************************************************************************)
\* urllib.parse.unquote on the escapes that occur in Urls; any other text,
\* a '%' that starts no escape included, is kept as it is.
Unescaped(hex) ==
    CASE hex \in {"2D", "2d"} -> "-"
      [] hex = "20"           -> " "
      [] hex \in {"2B", "2b"} -> "+"
      [] OTHER                -> ""

RECURSIVE unquote(_)
unquote(s) ==
    IF Len(s) = 0 THEN ""
    ELSE IF Ch(s, 1) = "%" /\ Len(s) >= 3 /\ Unescaped(SubSeq(s, 2, 3)) # ""
         THEN Unescaped(SubSeq(s, 2, 3)) \o unquote(SubSeq(s, 4, Len(s)))
         ELSE Ch(s, 1) \o unquote(Tail(s))

\* filename = unquote(url.split('/')[-1])
FilenameOf(url) == unquote(LastPart(url, "/"))

\* The file at dest_path: absent, or its content
Absent == "<absent>"

\* download_needed = not dest_path.exists()
DownloadNeeded(file) == file = Absent

\* What download_file does: requests.get raises before the file is opened
\* ("raise"), the transfer breaks after it was opened and truncated
\* ("raise_partial"), or the body served is written; the status is not looked at.
DownloadOutcomes == {"raise", "raise_partial", "tarball", "tarbalm"}
DownloadRaises(outcome) == outcome \in {"raise", "raise_partial"}
download_file(file, outcome) ==
    CASE outcome = "raise"         -> file
      [] outcome = "raise_partial" -> ""
      [] OTHER                     -> outcome

\* The file handed to verify_checksum
FileAt(file) == [readable |-> file # Absent, content |-> IF file = Absent THEN "" ELSE file]


\* AfterVerify re-downloading after any failure
MutAfterVerify(ok, download_needed) == IF ok THEN "ParsingName" ELSE "RetryFetch"

\* Where main goes after the first verify_checksum
AfterVerify(ok, download_needed) ==
    IF ok THEN "ParsingName"
    ELSE IF ~download_needed THEN "RetryFetch"
    ELSE "Aborted"


\* AfterReVerify without the exit
MutAfterReVerify(ok) == "ParsingName"

\* Where main goes after the verify_checksum that follows the re-download
AfterReVerify(ok) == IF ok THEN "ParsingName" ELSE "Aborted"

Urls == {"https://mirror.example/R/eclipse-cpp-2025-12-R-linux-gtk-x86_64.tar.gz",
         "https://mirror.example/R/eclipse%2Djava%2D2025-12.tar.gz",
         "https://mirror.example/R/eclipse-CPP-latest.tar.gz",
         "https://mirror.example/R/random-file.tar.gz"}
\* What get_download_url returns: sys.argv[1], the stripped input line, or None
UrlInputs == Urls \cup {"", None}

MainReplies == {GetRaised, Reply(404, "Not Found"), Reply(200, ""),
                Reply(200, "AB12  eclipse.tar.gz\n")}

MainTarballs ==
    {[gz |-> "ok", plain |-> "ok", scan |-> "ok", members |-> ms] :
        ms \in {<<>>,
                <<[name |-> "eclipse/icon.xpm", extractable |-> TRUE],
                  [name |-> "eclipse/plugins/p/eclipse48.png", extractable |-> TRUE]>>,
                <<[name |-> "eclipse/icon.xpm", extractable |-> FALSE]>>}}
    \cup {[gz |-> "ReadError", plain |-> "ReadError", scan |-> "error", members |-> <<>>],
          [gz |-> "ok", plain |-> "ok", scan |-> "error", members |-> <<>>]}

(***************************************************************************)
(* State machines: main, and one specification per function; each holds    *)
(* the variables of the others at rest.                                    *)
(***************************************************************************)
VARIABLES
    \* main
    pc,                 \* where main is
    url, filename,      \* the URL given and the file name taken from it
    sources_file,       \* the file at rpmbuild/SOURCES/<filename>
    download_needed,
    events,             \* the fetches and verifications of the run, in order
    exit_status,        \* <<>> while running, then <<status>>
    flavor, version, icon_name,
    spec_files,         \* the files main wrote to rpmbuild/SPECS
    \* parse_filename: argument, return value
    pf_filename, pf_result,
    \* verify_checksum: local file, reply to the checksum request, return value
    vc_file, vc_response, vc_result,
    \* extract_and_package_icons: archive, destination writable, result
    ic_tarball, ic_dest_writable, ic_result,
    \* the platform pruning: the plugins tree before and after
    pr_staged, pr_pruned, pr_done,
    \* create_spec_file and rpmbuild on its file
    cs_args,            \* the arguments, and what the bundle in SOURCES holds
    cs_docs,            \* the spec file written
    rb_stage,           \* none, written, prepped / failed, installed
    rb_build,           \* the result of %prep
    rb_installs,        \* <<icon, destination>> of the icon installs run
    rb_buildroot        \* the file paths %install left in the buildroot

mainVars == <<pc, url, filename, sources_file, download_needed, events, exit_status,
              flavor, version, icon_name, spec_files>>
parseVars == <<pf_filename, pf_result>>
verifyVars == <<vc_file, vc_response, vc_result>>
iconVars == <<ic_tarball, ic_dest_writable, ic_result>>
pruneVars == <<pr_staged, pr_pruned, pr_done>>
descriptorVars == <<cs_args, cs_docs, rb_stage, rb_build, rb_installs, rb_buildroot>>
vars == <<mainVars, parseVars, verifyVars, iconVars, pruneVars, descriptorVars>>

NotParsed == <<"?", "?">>
\* vc_result before the call; after it, the returned value with done set
NotVerified == [done |-> FALSE, raised |-> FALSE, value |-> FALSE]
Returned(r) == [done |-> TRUE, raised |-> r.raised, value |-> r.value]
NoFile == [readable |-> FALSE, content |-> ""]
NoTarball == [gz |-> "OSError", plain |-> "ReadError", scan |-> "error", members |-> <<>>]
NotExtracted == IconsResult(FALSE, "?", FALSE, <<>>)
NoArgs == [flavor |-> "", version |-> "", tarball_name |-> "",
           icons_archive_name |-> None, bundle |-> {}]
NoBuild == [files |-> {}, extracts_second |-> FALSE, status |-> "none"]

IdleMain ==
    /\ pc = "Idle" /\ url = None /\ filename = "" /\ sources_file = Absent
    /\ download_needed = FALSE /\ events = <<>> /\ exit_status = <<>>
    /\ flavor = "" /\ version = "" /\ icon_name = None /\ spec_files = {}
IdleParse == pf_filename = "" /\ pf_result = NotParsed
IdleVerify == vc_file = NoFile /\ vc_response = GetRaised /\ vc_result = NotVerified
IdleIcons == ic_tarball = NoTarball /\ ic_dest_writable = FALSE /\ ic_result = NotExtracted
IdlePrune == pr_staged = {} /\ pr_pruned = {} /\ pr_done = FALSE
IdleDescriptor ==
    /\ cs_args = NoArgs /\ cs_docs = {} /\ rb_stage = "none" /\ rb_build = NoBuild
    /\ rb_installs = {} /\ rb_buildroot = {}

\* ---- main ----
Init ==
    /\ pc = "ResolvingURL"
    /\ url = None
    /\ filename = ""
    /\ sources_file \in {Absent, "tarball", "tarbalm"}
    /\ download_needed = FALSE
    /\ events = <<>>
    /\ exit_status = <<>>
    /\ flavor = ""
    /\ version = ""
    /\ icon_name = None
    /\ spec_files = {}
    /\ IdleParse /\ IdleVerify /\ IdleIcons /\ IdlePrune /\ IdleDescriptor

others == <<parseVars, verifyVars, iconVars, pruneVars, descriptorVars>>

\* url = get_download_url(); without one, sys.exit(1); else the filename, the
\* destination and download_needed
ResolveURL ==
    /\ pc = "ResolvingURL"
    /\ \E u \in UrlInputs :
          /\ url' = u
          /\ IF ~Truthy(u)
             THEN /\ pc' = "Aborted"
                  /\ exit_status' = <<1>>
                  /\ UNCHANGED <<filename, download_needed>>
             ELSE /\ filename' = FilenameOf(u)
                  /\ download_needed' = DownloadNeeded(sources_file)
                  /\ pc' = IF download_needed' THEN "Fetching" ELSE "Verifying"
                  /\ UNCHANGED exit_status
    /\ UNCHANGED <<sources_file, events, flavor, version, icon_name, spec_files, others>>

\* download_file(url, dest_path); an exception of it leaves main
DownloadStep(next) ==
    \E outcome \in DownloadOutcomes :
        /\ sources_file' = download_file(sources_file, outcome)
        /\ events' = Append(events, "fetch")
        /\ IF DownloadRaises(outcome)
           THEN pc' = "Crashed" /\ exit_status' = <<1>>
           ELSE pc' = next /\ UNCHANGED exit_status
        /\ UNCHANGED <<url, filename, download_needed, flavor, version, icon_name,
                       spec_files, others>>

Fetch == pc = "Fetching" /\ DownloadStep("Verifying")

RetryFetch == pc = "RetryFetch" /\ DownloadStep("ReVerifying")

\* verify_checksum(dest_path, sha512_url) and the branch on its value
VerifyStep(next_ok, next_fail) ==
    \E reply \in MainReplies :
        LET r == verify_checksum(FileAt(sources_file), reply)
        IN  /\ IF r.raised
               THEN pc' = "Crashed" /\ exit_status' = <<1>> /\ UNCHANGED events
               ELSE /\ events' = Append(events, IF r.value THEN "verify_ok" ELSE "verify_fail")
                    /\ pc' = IF r.value THEN next_ok ELSE next_fail
                    /\ exit_status' = IF pc' = "Aborted" THEN <<1>> ELSE exit_status
            /\ UNCHANGED <<url, filename, sources_file, download_needed, flavor, version,
                           icon_name, spec_files, others>>

Verify == pc = "Verifying" /\ VerifyStep(AfterVerify(TRUE, download_needed),
                                         AfterVerify(FALSE, download_needed))

ReVerify == pc = "ReVerifying" /\ VerifyStep(AfterReVerify(TRUE), AfterReVerify(FALSE))

\* flavor, version = parse_filename(filename)
ParseName ==
    /\ pc = "ParsingName"
    /\ flavor' = parse_filename(filename)[1]
    /\ version' = parse_filename(filename)[2]
    /\ pc' = "ExtractingAssets"
    /\ UNCHANGED <<url, filename, sources_file, download_needed, events, exit_status,
                   icon_name, spec_files, others>>

\* icon_name = extract_and_package_icons(dest_path, SOURCES)
ExtractAssets ==
    /\ pc = "ExtractingAssets"
    /\ \E tarball \in MainTarballs, dest_writable \in BOOLEAN :
          LET r == extract_and_package_icons(tarball, dest_writable)
          IN  IF r.raised
              THEN pc' = "Crashed" /\ exit_status' = <<1>> /\ UNCHANGED icon_name
              ELSE pc' = "SynthesizingDescriptor" /\ icon_name' = r.returned
                   /\ UNCHANGED exit_status
    /\ UNCHANGED <<url, filename, sources_file, download_needed, events, flavor, version,
                   spec_files, others>>

\* create_spec_file(flavor, version, filename, icon_name); main returns
SynthesizeDescriptor ==
    /\ pc = "SynthesizingDescriptor"
    /\ spec_files' = {create_spec_file(flavor, version, filename, icon_name)}
    /\ pc' = "Done"
    /\ exit_status' = <<0>>
    /\ UNCHANGED <<url, filename, sources_file, download_needed, events, flavor, version,
                   icon_name, others>>

Next ==
    \/ ResolveURL
    \/ Fetch
    \/ Verify
    \/ RetryFetch
    \/ ReVerify
    \/ ParseName
    \/ ExtractAssets
    \/ SynthesizeDescriptor

Spec == Init /\ [][Next]_vars

\* The steps after the verification are local computations on a finite file:
\* each one, once reached, is taken.
FairSpec ==
    /\ Spec
    /\ WF_vars(ParseName)
    /\ WF_vars(ExtractAssets)
    /\ WF_vars(SynthesizeDescriptor)

\* ---- parse_filename ----
InitParse ==
    /\ pf_filename \in Filenames
    /\ pf_result = NotParsed
    /\ IdleMain /\ IdleVerify /\ IdleIcons /\ IdlePrune /\ IdleDescriptor

ParseFilename ==
    /\ pf_result = NotParsed
    /\ pf_result' = parse_filename(pf_filename)
    /\ UNCHANGED <<pf_filename, mainVars, verifyVars, iconVars, pruneVars, descriptorVars>>

NextParse == ParseFilename
SpecParse == InitParse /\ [][NextParse]_vars

\* ---- verify_checksum ----
InitVerify ==
    /\ vc_file \in LocalFiles
    /\ vc_response \in Replies
    /\ vc_result = NotVerified
    /\ IdleMain /\ IdleParse /\ IdleIcons /\ IdlePrune /\ IdleDescriptor

VerifyChecksum ==
    /\ ~vc_result.done
    /\ vc_result' = Returned(verify_checksum(vc_file, vc_response))
    /\ UNCHANGED <<vc_file, vc_response, mainVars, parseVars, iconVars, pruneVars,
                   descriptorVars>>

NextVerify == VerifyChecksum
SpecVerify == InitVerify /\ [][NextVerify]_vars

\* ---- extract_and_package_icons ----
InitIcons ==
    /\ ic_tarball \in Tarballs
    /\ ic_dest_writable \in BOOLEAN
    /\ ic_result = NotExtracted
    /\ IdleMain /\ IdleParse /\ IdleVerify /\ IdlePrune /\ IdleDescriptor

ExtractAndPackageIcons ==
    /\ ic_result = NotExtracted
    /\ ic_result' = extract_and_package_icons(ic_tarball, ic_dest_writable)
    /\ UNCHANGED <<ic_tarball, ic_dest_writable, mainVars, parseVars, verifyVars,
                   pruneVars, descriptorVars>>

NextIcons == ExtractAndPackageIcons
SpecIcons == InitIcons /\ [][NextIcons]_vars

\* ---- platform pruning ----
InitPrune ==
    /\ pr_staged \in StagedTrees
    /\ pr_pruned = {}
    /\ pr_done = FALSE
    /\ IdleMain /\ IdleParse /\ IdleVerify /\ IdleIcons /\ IdleDescriptor

RunPlatformPrune ==
    /\ ~pr_done
    /\ pr_pruned' = PlatformPrune(pr_staged)
    /\ pr_done' = TRUE
    /\ UNCHANGED <<pr_staged, mainVars, parseVars, verifyVars, iconVars, descriptorVars>>

NextPrune == RunPlatformPrune
SpecPrune == InitPrune /\ [][NextPrune]_vars

\* ---- create_spec_file, then rpmbuild's %prep and %install on its file ----
Flavors == {"cpp", "java", "committers"}
Versions == {"2025-12", "unknown"}
IconNames == {"icon.xpm", "eclipse.png", "eclipse16.png", "eclipse48.png", "eclipse256.png"}
SpecArgs ==
    {[flavor |-> f, version |-> v,
      tarball_name |-> "eclipse-" \o f \o "-2025-12-R-linux-gtk-x86_64.tar.gz",
      icons_archive_name |-> a, bundle |-> b] :
        f \in Flavors, v \in Versions, a \in {None, "eclipse-icons.tar.gz"},
        b \in SUBSET IconNames}

InitDescriptor ==
    /\ cs_args \in {a \in SpecArgs : a.icons_archive_name = None => a.bundle = {}}
    /\ cs_docs = {}
    /\ rb_stage = "none"
    /\ rb_build = NoBuild
    /\ rb_installs = {}
    /\ rb_buildroot = {}
    /\ IdleMain /\ IdleParse /\ IdleVerify /\ IdleIcons /\ IdlePrune

CreateSpecFile ==
    /\ rb_stage = "none"
    /\ cs_docs' = {create_spec_file(cs_args.flavor, cs_args.version, cs_args.tarball_name,
                                    cs_args.icons_archive_name)}
    /\ rb_stage' = "written"
    /\ UNCHANGED <<cs_args, rb_build, rb_installs, rb_buildroot,
                   mainVars, parseVars, verifyVars, iconVars, pruneVars>>

RunPrep ==
    /\ rb_stage = "written"
    /\ \E doc \in cs_docs :
          /\ rb_build' = Prep(doc, cs_args.bundle)
          /\ rb_stage' = IF rb_build'.status = "ok" THEN "prepped" ELSE "failed"
    /\ UNCHANGED <<cs_args, cs_docs, rb_installs, rb_buildroot,
                   mainVars, parseVars, verifyVars, iconVars, pruneVars>>

RunInstall ==
    /\ rb_stage = "prepped"
    /\ \E doc \in cs_docs :
          /\ rb_installs' = IconsInstallStage(doc, rb_build.files)
          /\ rb_buildroot' = Install(doc, rb_build.files)
    /\ rb_stage' = "installed"
    /\ UNCHANGED <<cs_args, cs_docs, rb_build,
                   mainVars, parseVars, verifyVars, iconVars, pruneVars>>

NextDescriptor == CreateSpecFile \/ RunPrep \/ RunInstall
SpecDescriptor == InitDescriptor /\ [][NextDescriptor]_vars

(***************************************************************************)
(* Claims                                                                  *)
(***************************************************************************)
\* s is without whitespace and non-empty
IsToken(s) == Len(s) > 0 /\ \A k \in 1..Len(s) : Ch(s, k) \notin SpaceChars

\* t is the first whitespace-delimited token of body
IsFirstToken(body, t) ==
    \E i \in 1..Len(body) : \E j \in i..Len(body) :
        /\ \A k \in 1..(i - 1) : Ch(body, k) \in SpaceChars
        /\ t = SubSeq(body, i, j)
        /\ IsToken(t)
        /\ j = Len(body) \/ Ch(body, j + 1) \in SpaceChars

CasePairs == {<<Ch("ABCDEFGHIJKLMNOPQRSTUVWXYZ", k), Ch("abcdefghijklmnopqrstuvwxyz", k)>> :
                 k \in 1..26}

\* a and b are equal when letter case is ignored
SameIgnoringCase(a, b) ==
    /\ Len(a) = Len(b)
    /\ \A k \in 1..Len(a) :
          \/ Ch(a, k) = Ch(b, k)
          \/ <<Ch(a, k), Ch(b, k)>> \in CasePairs
          \/ <<Ch(b, k), Ch(a, k)>> \in CasePairs

\* C3: verify_checksum never raises, and returns True exactly when the checksum
\* file was fetched with a success status, its body has a first
\* whitespace-delimited token, the local file is readable and that token equals
\* the file's digest ignoring case; every other case returns False.
C3_VerifyReturnsSuccessExactly ==
    vc_result.done =>
        /\ vc_result.raised = FALSE
        /\ vc_result.value =
              /\ ~vc_response.raised
              /\ vc_response.status_code \in 200..299
              /\ vc_file.readable
              /\ \E t \in {SubSeq(vc_response.text, i, j) :
                              i \in 1..Len(vc_response.text), j \in 1..Len(vc_response.text)} :
                    /\ IsFirstToken(vc_response.text, t)
                    /\ SameIgnoringCase(t, Sha512Hex(vc_file.content))

\* C3 witness: a success through an upper-case digest followed by a filename, and
\* a failure returned for an empty body
C3_Witness ==
    /\ vc_result.done
    /\ vc_result.value = TRUE
    /\ vc_response.text = "AB12 x"

\* C4: parse_filename returns a variant that is a non-empty run of lowercase
\* letters and a version that is YYYY-MM or "unknown", on every path.
WellFormedVariant(v) == Len(v) > 0 /\ \A k \in 1..Len(v) : Ch(v, k) \in LowerChars
WellFormedVersion(v) == v = "unknown" \/ (Len(v) = 7 /\ VersionAt(v, 1))

C4_ParseWellFormed ==
    pf_result # NotParsed =>
        /\ WellFormedVariant(pf_result[1])
        /\ WellFormedVersion(pf_result[2])

\* sub occurs in s
Contains(s, sub) == \E i \in 1..(Len(s) + 1) : StartsWithAt(s, i, sub)

\* ---- main ----
Terminal == pc \in {"Done", "Aborted", "Crashed"}
Count(kinds) == Cardinality({i \in 1..Len(events) : events[i] \in kinds})
LastEvent == IF Len(events) = 0 THEN "" ELSE events[Len(events)]
\* the most recent verification of the run failed
LastVerifyFailed ==
    \E i \in 1..Len(events) :
        /\ events[i] = "verify_fail"
        /\ \A j \in (i + 1)..Len(events) : events[j] = "fetch"

\* C1 (as amended): a run with a URL whose file exists verifies it without
\* fetching, and after a failure re-fetches once and verifies once more, aborting
\* if that fails too; a run whose file did not exist fetches once, verifies once
\* and aborts on failure without retry; a fetch that raises ends the run with
\* that error and without a further verification.  No run fetches or verifies
\* more than twice.
C1_RetryPolicy ==
    Truthy(url) =>
        /\ Count({"fetch"}) <= 2
        /\ Count({"verify_ok", "verify_fail"}) <= 2
        /\ Terminal =>
              IF ~download_needed
              THEN /\ events \in {<<"verify_ok">>,
                                  <<"verify_fail", "fetch", "verify_ok">>,
                                  <<"verify_fail", "fetch", "verify_fail">>,
                                  <<"verify_fail", "fetch">>}
                   /\ events = <<"verify_fail", "fetch", "verify_fail">> => pc = "Aborted"
                   /\ events = <<"verify_fail", "fetch">> => pc = "Crashed"
              ELSE /\ events \in {<<"fetch", "verify_ok">>, <<"fetch", "verify_fail">>,
                                  <<"fetch">>}
                   /\ events = <<"fetch", "verify_fail">> => pc = "Aborted"
                   /\ events = <<"fetch">> => pc = "Crashed"

\* C1 witness: a cached file failed, was fetched again, failed again: aborted
C1_Witness ==
    /\ pc = "Aborted"
    /\ ~download_needed
    /\ events = <<"verify_fail", "fetch", "verify_fail">>

\* C1 as stated: every run with a cached file ends after one verification, or
\* after exactly one re-fetch and one re-verification; every run without one
\* ends after exactly one fetch and one verification.
C1_Original ==
    (Truthy(url) /\ Terminal) =>
        IF ~download_needed
        THEN /\ events \in {<<"verify_ok">>,
                            <<"verify_fail", "fetch", "verify_ok">>,
                            <<"verify_fail", "fetch", "verify_fail">>}
             /\ events = <<"verify_fail", "fetch", "verify_fail">> => pc = "Aborted"
        ELSE /\ events \in {<<"fetch", "verify_ok">>, <<"fetch", "verify_fail">>}
             /\ events = <<"fetch", "verify_fail">> => pc = "Aborted"

PastVerification ==
    \/ pc \in {"ParsingName", "ExtractingAssets", "SynthesizingDescriptor", "Done"}
    \/ spec_files # {}

\* C2 (as amended): parsing, extraction and synthesis are reached, and the spec
\* file written, only when the last event of the run is a successful
\* verification; a run whose last verification failed ends with exit status 1
\* and no spec file: aborted, or, when the forced re-fetch raised, with that
\* error.
C2_OnlyVerifiedIsPackaged ==
    /\ PastVerification => LastEvent = "verify_ok"
    /\ (Terminal /\ LastVerifyFailed) =>
          /\ pc \in {"Aborted", "Crashed"}
          /\ pc = "Crashed" => LastEvent = "fetch"
          /\ exit_status = <<1>>
          /\ spec_files = {}

\* C2 witness: a cached file that failed, was fetched again and verified, and
\* only then packaged
C2_Witness ==
    /\ pc = "Done"
    /\ events = <<"verify_fail", "fetch", "verify_ok">>
    /\ spec_files # {}

\* C2 as stated: ... every run whose last verification failed ends in the
\* aborted state with a non-zero exit status and no spec file.
C2_Original ==
    /\ PastVerification => LastEvent = "verify_ok"
    /\ (Terminal /\ LastVerifyFailed) =>
          /\ pc = "Aborted"
          /\ exit_status # <<>> /\ exit_status # <<0>>
          /\ spec_files = {}

\* A step taken after the verification leads to the next stage or to Done
StaysOnCourse ==
    pc \in {"ParsingName", "ExtractingAssets", "SynthesizingDescriptor"} =>
        pc' \in {"ParsingName", "ExtractingAssets", "SynthesizingDescriptor", "Done"}

C5_DotWords == {"aarch64", "arm", "ppc", "riscv", "s390", "sparc", "mips", "macosx", "win32"}
C5_DirWords == {"aarch64", "arm", "ppc", "riscv", "s390", "sparc", "mips", "loongarch",
                "freebsd", "openbsd", "netbsd", "dragonfly", "sunos", "solaris", "aix",
                "darwin", "macosx", "win32", "windows"}

\* An entry directly under plugins/ that one of the fixed patterns names
C5_Named(e) ==
    \/ ~startswith(e.path, ".") /\ \E w \in C5_DotWords : Contains(e.path, "." \o w)
    \/ e.type = "d" /\ \E w \in C5_DirWords : Contains(e.path, w)
    \/ e.type = "f" /\ (endswith(e.path, ".dylib") \/ endswith(e.path, ".dll"))

C5_RemovedExactlyNamed ==
    \A e \in pr_staged : ~Contains(e.path, "/") => (e \notin pr_pruned <=> C5_Named(e))

\* C5 (as amended): pruning removes the file foo.win32.jar and keeps both the
\* file foo.linux.gtk.x86_64.jar and the directory foo.linux.gtk.x86_64; an
\* entry directly under plugins/ is removed exactly when its name holds
\* .<word> for a word of the rm patterns (and does not start with a dot), or it
\* is a directory whose name holds a word of the find patterns, or it is a file
\* ending in .dylib or .dll.
C5_PruneRemovesForeign ==
    pr_done =>
        /\ Entry("foo.win32.jar", "f") \notin pr_pruned
        /\ Entry("foo.linux.gtk.x86_64.jar", "f") \in pr_staged
              => Entry("foo.linux.gtk.x86_64.jar", "f") \in pr_pruned
        /\ Entry("foo.linux.gtk.x86_64", "d") \in pr_staged
              => Entry("foo.linux.gtk.x86_64", "d") \in pr_pruned
        /\ C5_RemovedExactlyNamed

\* C5 witness: the target directory is kept and the win32 directory in it is not
C5_Witness ==
    /\ pr_done
    /\ Entry("foo.linux.gtk.x86_64", "d") \in pr_pruned
    /\ Entry("foo.linux.gtk.x86_64/win32", "d") \in pr_staged \ pr_pruned

\* C5 as stated: pruning removes the file foo.win32.jar and the directory
\* foo.linux.gtk.x86_64, and keeps the file foo.linux.gtk.x86_64.jar; an entry
\* directly under plugins/ is removed exactly when a fixed pattern names it.
C5_Original ==
    pr_done =>
        /\ Entry("foo.win32.jar", "f") \notin pr_pruned
        /\ Entry("foo.linux.gtk.x86_64", "d") \notin pr_pruned
        /\ Entry("foo.linux.gtk.x86_64.jar", "f") \in pr_staged
              => Entry("foo.linux.gtk.x86_64.jar", "f") \in pr_pruned
        /\ C5_RemovedExactlyNamed

\* ---- create_spec_file ----
\* C6: the spec file declares a second source exactly when a bundle name was
\* passed, its %prep stage extracts the second source only when it is declared,
\* and without a bundle the icon install stage is the non-empty comment.
C6_DescriptorConsistent ==
    \A doc \in cs_docs :
        /\ Contains(doc.icons_source_entry, "Source1:") <=> Truthy(cs_args.icons_archive_name)
        /\ rb_build.extracts_second => Contains(doc.icons_source_entry, "Source1:")
        /\ ~Truthy(cs_args.icons_archive_name) =>
              /\ Len(doc.icons_install_entry) > 0
              /\ startswith(doc.icons_install_entry, "#")
              /\ ~Contains(doc.icons_install_entry, "\n")

\* A %files entry covers a path: the path matches it, '*' standing for any text
\* without '/', or lies below the directory it names
C7_Covers(entry, path) ==
    \/ \E i \in 1..Len(entry) :
          /\ Ch(entry, i) = "*"
          /\ startswith(path, SubSeq(entry, 1, i - 1))
          /\ endswith(path, SubSeq(entry, i + 1, Len(entry)))
          /\ Len(path) >= Len(entry) - 1
          /\ ~Contains(SubSeq(path, i, Len(path) - (Len(entry) - i)), "/")
    \/ ~Contains(entry, "*") /\ (path = entry \/ startswith(path, entry \o "/"))

C7_CoveredOnce(doc, installed) ==
    \A p \in installed :
        LET path == SubSeq(p, Len("%{buildroot}") + 1, Len(p))
        IN  /\ startswith(p, "%{buildroot}")
            /\ Cardinality({i \in 1..Len(doc.files) : C7_Covers(doc.files[i], path)}) = 1

\* C7: every path the %install stage installs, for any set of icons unpacked
\* into the build directory, and every path it installs from a build directory
\* without icons when no bundle was passed, is covered by exactly one entry of
\* the %files section.
C7_ManifestCoversInstalled ==
    \A doc \in cs_docs :
        /\ rb_stage = "installed" => C7_CoveredOnce(doc, rb_buildroot)
        /\ ~Truthy(cs_args.icons_archive_name) => C7_CoveredOnce(doc, Install(doc, {}))

\* C7 witness: an install that left a themed icon, both pixmaps, the launcher
\* and a pruned payload
C7_Witness ==
    /\ rb_stage = "installed"
    /\ "%{buildroot}%{_datadir}/icons/hicolor/48x48/apps/eclipse-cpp.png" \in rb_buildroot
    /\ "%{buildroot}%{_datadir}/pixmaps/eclipse-cpp.xpm" \in rb_buildroot
    /\ "%{buildroot}%{_datadir}/pixmaps/eclipse-cpp.png" \in rb_buildroot
    /\ "%{buildroot}%{_bindir}/eclipse-cpp" \in rb_buildroot
    /\ "%{buildroot}/opt/eclipse-cpp/plugins/org.eclipse.swt.gtk.linux.x86_64.jar" \in rb_buildroot
    /\ "%{buildroot}/opt/eclipse-cpp/plugins/org.eclipse.swt.win32.win32.x86_64.jar"
          \notin rb_buildroot

\* The destinations the stage installed an icon to
C8_Dests(icon) == {p[2] : p \in {q \in rb_installs : q[1] = icon}}

\* C8: icon.xpm is installed as pixmaps/<package>.xpm, eclipse.png as
\* pixmaps/<package>.png, eclipse<N>.png as hicolor/<N>x<N>/apps/<package>.png,
\* and no icon is installed to more than one place.
C8_IconRouting ==
    rb_stage = "installed" =>
        \A icon \in rb_build.files :
            LET package == "eclipse-" \o cs_args.flavor
                share == "%{buildroot}%{_datadir}/"
                N == SubSeq(icon, 8, Len(icon) - 4)
            IN  /\ icon = "icon.xpm" =>
                      C8_Dests(icon) = {share \o "pixmaps/" \o package \o ".xpm"}
                /\ icon = "eclipse.png" =>
                      C8_Dests(icon) = {share \o "pixmaps/" \o package \o ".png"}
                /\ (icon = "eclipse" \o N \o ".png" /\ isdigit(N)) =>
                      C8_Dests(icon) = {share \o "icons/hicolor/" \o N \o "x" \o N \o
                                        "/apps/" \o package \o ".png"}
                /\ Cardinality(C8_Dests(icon)) <= 1

\* C8 witness: the three kinds of icon installed by one stage
C8_Witness ==
    /\ rb_stage = "installed"
    /\ {"icon.xpm", "eclipse.png", "eclipse48.png"} \subseteq rb_build.files
    /\ Cardinality(rb_installs) >= 3

\* ---- extract_and_package_icons ----
\* The text after the last '/' of path is icon.xpm, or eclipse, digits, .png
C9_IsCandidate(path) ==
    \E i \in 0..Len(path) :
        LET base == SubSeq(path, i + 1, Len(path))
        IN  /\ i = 0 \/ Ch(path, i) = "/"
            /\ ~Contains(base, "/")
            /\ \/ base = "icon.xpm"
               \/ \E n \in 0..Len(base) :
                     /\ Len(base) = 7 + n + 4
                     /\ SubSeq(base, 1, 7) = "eclipse"
                     /\ SubSeq(base, 8 + n, Len(base)) = ".png"
                     /\ \A k \in 8..(7 + n) : Ch(base, k) \in DigitChars

C9_Candidates == SelectSeq(ic_tarball.members, LAMBDA m : C9_IsCandidate(m.name))
C9_Readable == (ic_tarball.gz = "ok" \/ ic_tarball.plain = "ok") /\ ic_tarball.scan = "ok"
C9_BaseNames ==
    [k \in 1..Len(C9_Candidates) |->
        LET n == C9_Candidates[k].name
            cut == Max({0} \cup {i \in 1..Len(n) : Ch(n, i) = "/"})
        IN  SubSeq(n, cut + 1, Len(n))]

\* C9 (as amended): the function returns eclipse-icons.tar.gz exactly when the
\* archive was readable, has a candidate, and the bundle could be opened and
\* every candidate extracted; the bundle then holds the base name of every
\* candidate, in order; otherwise it returns None, having written no bundle
\* when the archive is unreadable or without candidates.
C9_BundleOfCandidates ==
    ic_result # NotExtracted =>
        /\ ~ic_result.raised
        /\ ic_result.returned \in {"eclipse-icons.tar.gz", None}
        /\ ic_result.returned = "eclipse-icons.tar.gz" <=>
              /\ C9_Readable
              /\ Len(C9_Candidates) > 0
              /\ ic_dest_writable
              /\ \A k \in 1..Len(C9_Candidates) : C9_Candidates[k].extractable
        /\ ic_result.returned = "eclipse-icons.tar.gz" =>
              ic_result.written /\ ic_result.bundle = C9_BaseNames
        /\ (~C9_Readable \/ Len(C9_Candidates) = 0) => ~ic_result.written

\* C9 witness: two candidates from nested paths bundled under their base names
C9_Witness ==
    /\ ic_result.returned = "eclipse-icons.tar.gz"
    /\ ic_result.bundle = <<"eclipse48.png", "icon.xpm">>
    /\ ic_tarball.gz = "ReadError"

\* C9 as stated: the function returns eclipse-icons.tar.gz exactly when the
\* archive was readable and has a candidate, the bundle holding the base name
\* of every candidate in order; otherwise it returns None and writes no bundle.
C9_Original ==
    ic_result # NotExtracted =>
        /\ ic_result.returned = "eclipse-icons.tar.gz" <=>
              (C9_Readable /\ Len(C9_Candidates) > 0)
        /\ ic_result.returned = "eclipse-icons.tar.gz" =>
              ic_result.written /\ ic_result.bundle = C9_BaseNames
        /\ ic_result.returned # "eclipse-icons.tar.gz" =>
              ic_result.returned = None /\ ~ic_result.written

=============================================================================
